---- MODULE Spec2Model ----
(***************************************************************************)
(* A model of the dependency analyzer: the manifest parser, the source    *)
(* usage scanner (RustAnalyzer and its syntax-tree visitor) and the usage *)
(* metrics (calculate_metrics).                                           *)
(*                                                                         *)
(* Strings are sequences of one-character strings, so that substring      *)
(* tests, splitting and formatting are computed and not assumed.          *)
(* Floating point scores are exact rationals: a score s is held as the    *)
(* integer s * ScoreDen.                                                   *)
(***************************************************************************)
EXTENDS Integers, Sequences, FiniteSets, TLC

VARIABLES
    pc,               \* position in DependencyAnalyzer::analyze
    manifest,         \* the Cargo.toml tables
    dependencies,     \* Vec<CargoDependency>
    usage_locations,  \* DependencyUsageData.usage_locations
    file_no,          \* number of source files handed to analyze_file so far
    walked,           \* the files handed to analyze_file so far, in order
    metrics,          \* DependencyMetrics
    cargo_lock,       \* the Cargo.lock file of the project
    dependency_graph, \* DependencyGraph
    analysis,         \* the rows of the Analysis view
    graph_query,      \* what the last query of the dependency graph returned
    config,           \* the Config that main has loaded
    app               \* the App of the interactive view

vars == <<pc, manifest, dependencies, usage_locations, file_no, walked, metrics,
          cargo_lock, dependency_graph, analysis, graph_query, config, app>>

----------------------------------------------------------------------------
(* Bounds of the model *)

\* entries of the manifest, over its three tables
MaxEntries == 2
\* source files of the project tree
MaxFiles == 2
\* files of a project whose files all use the dependency alike (SpecScore)
MaxScoreFiles == 26
\* edges added to a dependency graph (SpecGraph)
MaxEdges == 3

----------------------------------------------------------------------------
(* Strings *)

Min(a, b) == IF a < b THEN a ELSE b

\* str::contains
contains(hay, needle) ==
    \E i \in 0..(Len(hay) - Len(needle)) :
        SubSeq(hay, i + 1, i + Len(needle)) = needle

ColonColon == <<":", ":">>

\* segments.join("::")
RECURSIVE join(_)
join(segs) ==
    IF segs = <<>> THEN <<>>
    ELSE IF Len(segs) = 1 THEN segs[1]
    ELSE segs[1] \o ColonColon \o join(Tail(segs))

\* s.split("::").next().unwrap_or(""): the text before the first "::"
RECURSIVE first_part(_)
first_part(s) ==
    IF s = <<>> THEN <<>>
    ELSE IF Len(s) >= 2 /\ SubSeq(s, 1, 2) = ColonColon THEN <<>>
    ELSE <<s[1]>> \o first_part(Tail(s))

\* str::starts_with
starts_with(s, prefix) ==
    Len(s) >= Len(prefix) /\ SubSeq(s, 1, Len(prefix)) = prefix

\* str::trim_start_matches: the prefix is removed as often as it is there
RECURSIVE trim_start_matches(_, _)
trim_start_matches(s, prefix) ==
    IF starts_with(s, prefix)
    THEN trim_start_matches(SubSeq(s, Len(prefix) + 1, Len(s)), prefix)
    ELSE s

\* str::trim_end_matches of one character
RECURSIVE trim_end_matches(_, _)
trim_end_matches(s, ch) ==
    IF s # <<>> /\ s[Len(s)] = ch
    THEN trim_end_matches(SubSeq(s, 1, Len(s) - 1), ch)
    ELSE s

\* str::trim: the white space of the model is the blank
trim(s) == trim_end_matches(trim_start_matches(s, <<" ">>), " ")

\* the characters up to the first blank
RECURSIVE word(_)
word(s) == IF s = <<>> \/ s[1] = " " THEN <<>> ELSE <<s[1]>> \o word(Tail(s))

\* s.split_whitespace().next().unwrap_or(""): the first word
first_word(s) == word(trim_start_matches(s, <<" ">>))

Lowercase == {"a", "b", "f", "m", "x", "y", "z"}
Uppercase == {"T"}

is_lowercase_first(s) == s # <<>> /\ s[1] \in Lowercase
is_uppercase_first(s) == s # <<>> /\ s[1] \in Uppercase

----------------------------------------------------------------------------
(* Dependency records and the manifest *)

DependencyType == {"Normal", "Development", "Build"}

UsageType == {"Import", "Function", "Type", "Trait", "Macro", "Other"}

\* crate names a manifest of the model may declare, in key order
CrateNames == << <<"x">>, <<"y">> >>

\* feature lists a manifest entry of the model may carry
FeatureLists == << <<>>, << <<"a">> >>, << <<"a">>, <<"b">> >> >>

\* A table entry: a version string, an inline table (of the model: one that
\* lists two features and is optional), or another TOML value.
EntryValues ==
    { [kind |-> "string", features |-> <<>>, optional |-> FALSE],
      [kind |-> "other", features |-> <<>>, optional |-> FALSE],
      [kind |-> "table", features |-> FeatureLists[3], optional |-> TRUE] }

NoEntry == [kind |-> "none", features |-> <<>>, optional |-> FALSE]

EntryCount(m) ==
    Cardinality({ <<t, i>> \in DependencyType \X (1..Len(CrateNames)) :
                    m[t][i] # NoEntry })

\* The manifests of the model: three tables, each keyed by crate name.
Manifests ==
    { m \in [DependencyType -> [1..Len(CrateNames) -> EntryValues \cup {NoEntry}]] :
        EntryCount(m) <= MaxEntries }

\* CargoParser::extract_dependencies: one record per entry of the table, in
\* key order; a value that is neither a string nor a table is skipped.
RECURSIVE extract_dependencies(_, _, _, _)
extract_dependencies(deps_table, deps, dep_type, i) ==
    IF i > Len(CrateNames) THEN deps
    ELSE LET value == deps_table[i]
             dep == [name |-> CrateNames[i],
                     features |-> IF value.kind = "table" THEN value.features ELSE <<>>,
                     optional |-> IF value.kind = "table" THEN value.optional ELSE FALSE,
                     dependency_type |-> dep_type]
         IN  IF value.kind \in {"string", "table"}
             THEN extract_dependencies(deps_table, Append(deps, dep), dep_type, i + 1)
             ELSE extract_dependencies(deps_table, deps, dep_type, i + 1)

\* CargoParser::parse: the normal, then the dev, then the build dependencies
CargoParser_parse(m) ==
    LET normal == extract_dependencies(m["Normal"], <<>>, "Normal", 1)
        dev == extract_dependencies(m["Development"], normal, "Development", 1)
    IN  extract_dependencies(m["Build"], dev, "Build", 1)

DepNames(deps) == { deps[i].name : i \in 1..Len(deps) }

----------------------------------------------------------------------------
(* Usage sites and the usage index *)

\* DependencyUsage
Usage(file, line, imported_item, usage_type) ==
    [file |-> file, line |-> line, imported_item |-> imported_item,
     usage_type |-> usage_type]

\* HashMap::insert
Put(map, key, value) ==
    [k \in (DOMAIN map) \cup {key} |-> IF k = key THEN value ELSE map[k]]

EmptyMap == [k \in {} |-> 0]

\* push putting the usage site in front of the sequence
push_usage_front(usage_data, name, usage) ==
    IF name \in DOMAIN usage_data
    THEN [usage_data EXCEPT ![name] = <<usage>> \o @]
    ELSE usage_data

\* usage_locations.get_mut(name), then push: nothing happens without the key
push_usage(usage_data, name, usage) ==
    IF name \in DOMAIN usage_data
    THEN [usage_data EXCEPT ![name] = Append(@, usage)]
    ELSE usage_data

----------------------------------------------------------------------------
(* Usage metrics: analyzer/metrics.rs *)

\* the denominator of a score: base is held in 20ths, 1 + variety in 5ths,
\* 1 + depth in 1000ths, the class and optional factors in 10ths
ScoreDen == 20 * 5 * 1000 * 10 * 10

\* count_usage_types: a tally with a key for each usage type that occurs
count_usage_types(usages) ==
    [k \in { usages[i].usage_type : i \in DOMAIN usages } |->
        Cardinality({ i \in DOMAIN usages : usages[i].usage_type = k })]

\* usage_types.get(&kind).unwrap_or(&0)
type_count(usage_types, kind) ==
    IF kind \in DOMAIN usage_types THEN usage_types[kind] ELSE 0

\* calculate_feature_usage
calculate_feature_usage(dep, usages) ==
    LET features == { dep.features[i] : i \in DOMAIN dep.features }
    IN  IF dep.features = <<>> \/ usages = <<>>
        THEN [f \in features |-> FALSE]
        ELSE [f \in features |->
                \E i \in DOMAIN usages : contains(usages[i].imported_item, f)]

\* determine_if_partially_used
determine_if_partially_used(dep, feature_usage) ==
    IF dep.features = <<>> THEN FALSE
    ELSE \E f \in DOMAIN feature_usage : ~feature_usage[f]

\* calculate_usage_depth, in 1000ths
calculate_usage_depth(usage_types) ==
    LET import_count == type_count(usage_types, "Import")
        function_count == type_count(usage_types, "Function")
        type_cnt == type_count(usage_types, "Type")
        trait_count == type_count(usage_types, "Trait")
        macro_count == type_count(usage_types, "Macro")
        depth ==
            (IF import_count > 0 THEN 100 ELSE 0)
            + (IF function_count > 0 THEN (300 * Min(function_count, 10)) \div 10 ELSE 0)
            + (IF type_cnt > 0 THEN (300 * Min(type_cnt, 10)) \div 10 ELSE 0)
            + (IF trait_count > 0 THEN (300 * Min(trait_count, 5)) \div 5 ELSE 0)
            + (IF macro_count > 0 THEN (200 * Min(macro_count, 10)) \div 10 ELSE 0)
    IN  Min(depth, 1000)

\* variety_factor of calculate_importance_score, in 5ths
variety_factor(usage_types) == Cardinality(DOMAIN usage_types)

\* type_factor of calculate_importance_score, in 10ths
type_factor(dep) ==
    CASE dep.dependency_type = "Normal" -> 10
      [] dep.dependency_type = "Development" -> 5
      [] dep.dependency_type = "Build" -> 7

\* base_score with the file count wrapped at 20 where the code clamps it
base_score_wrapping(usage_count) == usage_count % 20

\* base_score of calculate_importance_score, in 20ths
base_score(usage_count) == Min(usage_count, 20)

\* calculate_importance_score without its final min(1.0)
calculate_importance_score_uncapped(dep, usages, usage_count, usage_types) ==
    IF usages = <<>> THEN 0
    ELSE base_score(usage_count) * (5 + variety_factor(usage_types))
            * (1000 + calculate_usage_depth(usage_types)) * type_factor(dep)
            * (IF dep.optional THEN 7 ELSE 10)

\* calculate_importance_score, as a multiple of 1/ScoreDen
calculate_importance_score(dep, usages, usage_count, usage_types) ==
    IF usages = <<>> THEN 0
    ELSE LET usage_depth == calculate_usage_depth(usage_types)
             optional_factor == IF dep.optional THEN 7 ELSE 10
             score == base_score(usage_count) * (5 + variety_factor(usage_types))
                        * (1000 + usage_depth) * type_factor(dep) * optional_factor
         IN  Min(score, ScoreDen)

DefaultMetrics ==
    [importance_scores |-> EmptyMap, is_used |-> EmptyMap, usage_count |-> EmptyMap,
     usage_types |-> EmptyMap, feature_usage |-> EmptyMap,
     is_partially_used |-> EmptyMap, removable_dependencies |-> {}]

\* AnalysisConfig::default: the removal threshold, a score
AnalysisConfig_default == [removal_threshold |-> ScoreDen \div 10]

\* Config::default, by its analysis options
Config_default == [analysis |-> AnalysisConfig_default]

\* the configuration files of the model: none, or one that sets the removal
\* threshold to 0.5
ConfigFiles ==
    { [exists |-> FALSE, removal_threshold |-> 0],
      [exists |-> TRUE, removal_threshold |-> ScoreDen \div 2] }

\* Config::load: the defaults when the file does not exist
Config_load(file) ==
    IF ~file.exists THEN Config_default
    ELSE [analysis |-> [removal_threshold |-> file.removal_threshold]]

\* the App before App::new
NoApp == <<>>

\* find_removable_dependencies without its rule for partially used dependencies
find_removable_dependencies_no_partial(m) ==
    { dep_name \in DOMAIN m.is_used :
        \/ ~m.is_used[dep_name]
        \/ 10 * m.importance_scores[dep_name] < ScoreDen }

\* find_removable_dependencies. The Vec it returns is in the iteration order
\* of a HashMap and holds each name at most once: it is held as a set.
find_removable_dependencies(m) ==
    { dep_name \in DOMAIN m.is_used :
        IF ~m.is_used[dep_name] THEN TRUE
        ELSE LET score == IF dep_name \in DOMAIN m.importance_scores
                          THEN m.importance_scores[dep_name] ELSE ScoreDen
             IN  IF 10 * score < ScoreDen THEN TRUE
                 ELSE IF dep_name \in DOMAIN m.is_partially_used
                         /\ m.is_partially_used[dep_name]
                      THEN 10 * score < 3 * ScoreDen
                      ELSE FALSE }

\* unique_files collected into a Vec: one element per usage site
unique_files_per_site(usages) == { <<i, usages[i].file>> : i \in DOMAIN usages }

\* the set of the distinct files among the usages
unique_files(usages) == { usages[i].file : i \in DOMAIN usages }

\* store_metrics with is_used taken from the presence of the key
store_metrics_is_used_by_key(m, dep, usage_data) ==
    LET usages == IF dep.name \in DOMAIN usage_data THEN usage_data[dep.name] ELSE <<>>
        usage_count == Cardinality(unique_files(usages))
        usage_types == count_usage_types(usages)
        feature_usage == calculate_feature_usage(dep, usages)
    IN  [m EXCEPT
            !.is_used = Put(@, dep.name, dep.name \in DOMAIN usage_data),
            !.usage_count = Put(@, dep.name, usage_count),
            !.importance_scores = Put(@, dep.name,
                calculate_importance_score(dep, usages, usage_count, usage_types)),
            !.usage_types = Put(@, dep.name, usage_types),
            !.feature_usage = Put(@, dep.name, feature_usage),
            !.is_partially_used = Put(@, dep.name,
                determine_if_partially_used(dep, feature_usage))]

\* one turn of the loop of calculate_metrics: the metrics of dep are stored
\* under its name
store_metrics(m, dep, usage_data) ==
    LET usages == IF dep.name \in DOMAIN usage_data THEN usage_data[dep.name] ELSE <<>>
        is_used == usages # <<>>
        usage_count == Cardinality(unique_files(usages))
        usage_types == count_usage_types(usages)
        feature_usage == calculate_feature_usage(dep, usages)
        importance_score ==
            calculate_importance_score(dep, usages, usage_count, usage_types)
        is_partially_used == determine_if_partially_used(dep, feature_usage)
    IN  [m EXCEPT
            !.is_used = Put(@, dep.name, is_used),
            !.usage_count = Put(@, dep.name, usage_count),
            !.importance_scores = Put(@, dep.name, importance_score),
            !.usage_types = Put(@, dep.name, usage_types),
            !.feature_usage = Put(@, dep.name, feature_usage),
            !.is_partially_used = Put(@, dep.name, is_partially_used)]

RECURSIVE metrics_loop(_, _, _, _)
metrics_loop(m, deps, usage_data, i) ==
    IF i > Len(deps) THEN m
    ELSE metrics_loop(store_metrics(m, deps[i], usage_data), deps, usage_data, i + 1)

\* calculate_metrics
calculate_metrics(deps, usage_data) ==
    LET m == metrics_loop(DefaultMetrics, deps, usage_data, 1)
    IN  [m EXCEPT !.removable_dependencies = find_removable_dependencies(m)]

----------------------------------------------------------------------------
(* The source usage scanner: analyzer/rust_analyzer.rs *)

\* Syntax trees. A use tree is a record of one shape for its five forms.
UsePath(ident, tree) == [k |-> "Path", ident |-> ident, rename |-> <<>>, items |-> <<tree>>]
UseName(ident) == [k |-> "Name", ident |-> ident, rename |-> <<>>, items |-> <<>>]
UseRename(ident, rename) == [k |-> "Rename", ident |-> ident, rename |-> rename, items |-> <<>>]
UseGlob == [k |-> "Glob", ident |-> <<>>, rename |-> <<>>, items |-> <<>>]
UseGroup(items) == [k |-> "Group", ident |-> <<>>, rename |-> <<>>, items |-> items]

\* The nodes the visitor overrides, in the order the traversal meets them:
\* a use item, a path (arguments: whether its last segment takes any), a
\* macro invocation.
ItemUse(tree) == [t |-> "use", tree |-> tree, segments |-> <<>>, arguments |-> FALSE]
Path(segments, arguments) ==
    [t |-> "path", tree |-> UseGlob, segments |-> segments, arguments |-> arguments]
Macro(segments) ==
    [t |-> "macro", tree |-> UseGlob, segments |-> segments, arguments |-> FALSE]

\* path_to_string
path_to_string(path) == join(path.segments)

\* determine_usage_type: the test for a type comes before the test for a
\* trait and is the weaker one
determine_usage_type(path) ==
    IF path.segments = <<>> THEN "Other"
    ELSE LET name == path.segments[Len(path.segments)]
         IN  IF ~path.arguments /\ is_lowercase_first(name) THEN "Function"
             ELSE IF is_uppercase_first(name) THEN "Type"
             ELSE IF is_uppercase_first(name) /\ Len(path.segments) > 1 THEN "Trait"
             ELSE "Other"

\* for dep in dependencies { if name == dep.name { get_mut(&dep.name) ... push } }
RECURSIVE push_for_dependencies(_, _, _, _, _)
push_for_dependencies(usage_data, deps, i, name, usage) ==
    IF i > Len(deps) THEN usage_data
    ELSE push_for_dependencies(
            IF name = deps[i].name
            THEN push_usage(usage_data, deps[i].name, usage)
            ELSE usage_data,
            deps, i + 1, name, usage)

\* The visitor: the usage data it borrows and its import table.
Visitor(usage_data, current_imports) ==
    [usage_data |-> usage_data, current_imports |-> current_imports]

prefixed(prefix, ident) ==
    IF prefix = <<>> THEN ident ELSE prefix \o ColonColon \o ident

\* RustDependencyVisitor::process_use_tree
RECURSIVE process_use_tree(_, _, _, _, _, _)
RECURSIVE process_use_group(_, _, _, _, _, _, _)
process_use_tree(v, deps, file_path, tree, prefix, line) ==
    CASE tree.k = "Path" ->
            LET new_prefix == prefixed(prefix, tree.ident)
                pushed ==
                    IF prefix = <<>>
                    THEN push_for_dependencies(v.usage_data, deps, 1, tree.ident,
                            Usage(file_path, line,
                                  tree.ident \o ColonColon \o <<"<", "r", "e", "s", "t", ">">>,
                                  "Import"))
                    ELSE v.usage_data
            IN  process_use_tree(Visitor(pushed, v.current_imports), deps, file_path,
                                 tree.items[1], new_prefix, line)
      [] tree.k = "Name" ->
            LET full_path == prefixed(prefix, tree.ident)
            IN  Visitor(
                    push_for_dependencies(v.usage_data, deps, 1, first_part(prefix),
                        Usage(file_path, line, full_path, "Import")),
                    Put(v.current_imports, tree.ident, full_path))
      [] tree.k = "Rename" ->
            LET full_path == prefixed(prefix, tree.ident)
            IN  Visitor(
                    push_for_dependencies(v.usage_data, deps, 1, first_part(prefix),
                        Usage(file_path, line,
                              full_path \o <<" ", "a", "s", " ">> \o tree.rename, "Import")),
                    Put(v.current_imports, tree.rename, full_path))
      [] tree.k = "Glob" ->
            Visitor(
                push_for_dependencies(v.usage_data, deps, 1, first_part(prefix),
                    Usage(file_path, line, prefix \o ColonColon \o <<"*">>, "Import")),
                v.current_imports)
      [] tree.k = "Group" ->
            process_use_group(v, deps, file_path, tree.items, 1, prefix, line)

process_use_group(v, deps, file_path, items, i, prefix, line) ==
    IF i > Len(items) THEN v
    ELSE process_use_group(
            process_use_tree(v, deps, file_path, items[i], prefix, line),
            deps, file_path, items, i + 1, prefix, line)

\* RustDependencyVisitor::visit_item_use: the line is the placeholder 0
visit_item_use(v, deps, file_path, node) ==
    process_use_tree(v, deps, file_path, node.tree, <<>>, 0)

\* visit_path recording a use under the path's first segment with
\* entry(name).or_default(), whether or not the name is declared
visit_path_any_crate(v, deps, file_path, node) ==
    IF node.segments = <<>> THEN v
    ELSE LET name == node.segments[1]
             usages == IF name \in DOMAIN v.usage_data THEN v.usage_data[name] ELSE <<>>
         IN  Visitor(
                Put(v.usage_data, name,
                    Append(usages,
                           Usage(file_path, 0, path_to_string(node),
                                 determine_usage_type(node)))),
                v.current_imports)

\* RustDependencyVisitor::visit_path: a use under the crate's own name, then
\* a use through the import table
visit_path(v, deps, file_path, node) ==
    IF node.segments = <<>> THEN v
    ELSE LET name == node.segments[1]
             direct ==
                push_for_dependencies(v.usage_data, deps, 1, name,
                    Usage(file_path, 0, path_to_string(node), determine_usage_type(node)))
         IN  IF name \in DOMAIN v.current_imports
             THEN LET full_path == v.current_imports[name]
                  IN  Visitor(
                        push_for_dependencies(direct, deps, 1, first_part(full_path),
                            Usage(file_path, 0,
                                  path_to_string(node) \o <<" ", "(", "f", "r", "o", "m", " ">>
                                    \o full_path \o <<")">>,
                                  determine_usage_type(node))),
                        v.current_imports)
             ELSE Visitor(direct, v.current_imports)

\* the iteration of visit_macro over the import table: order lists the local
\* names in the order the HashMap yields its entries
RECURSIVE macro_imports(_, _, _, _, _, _, _)
macro_imports(usage_data, current_imports, order, k, macro_name, deps, file_path) ==
    IF k > Len(order) THEN usage_data
    ELSE LET local_name == order[k]
             attributed ==
                IF local_name \in DOMAIN current_imports /\ macro_name = local_name
                THEN push_for_dependencies(usage_data, deps, 1,
                        first_part(current_imports[local_name]),
                        Usage(file_path, 0, macro_name \o <<"!">>, "Macro"))
                ELSE usage_data
         IN  macro_imports(attributed, current_imports, order, k + 1, macro_name,
                           deps, file_path)

\* visit_macro attributing the macro to the first entry the import table
\* yields, whatever its local name
visit_macro_first_import(v, deps, file_path, node, order) ==
    IF node.segments = <<>> THEN v
    ELSE LET macro_name == node.segments[1]
             held == { k \in DOMAIN order : order[k] \in DOMAIN v.current_imports }
             full_path ==
                IF held = {} THEN <<>>
                ELSE v.current_imports[order[CHOOSE k \in held : \A j \in held : k <= j]]
             attributed ==
                push_for_dependencies(v.usage_data, deps, 1, first_part(full_path),
                    Usage(file_path, 0, macro_name \o <<"!">>, "Macro"))
         IN  visit_path(Visitor(attributed, v.current_imports), deps, file_path, node)

\* RustDependencyVisitor::visit_macro: the entries of the import table are
\* gone through for the macro's first segment; the traversal then visits the
\* macro's path
visit_macro(v, deps, file_path, node, order) ==
    IF node.segments = <<>> THEN v
    ELSE LET macro_name == node.segments[1]
             attributed ==
                macro_imports(v.usage_data, v.current_imports, order, 1, macro_name,
                              deps, file_path)
         IN  visit_path(Visitor(attributed, v.current_imports), deps, file_path, node)

\* visitor.visit_file: the nodes of the file in traversal order
RECURSIVE visit_file(_, _, _, _, _, _)
visit_file(v, deps, file_path, file, i, order) ==
    IF i > Len(file) THEN v
    ELSE LET node == file[i]
             next ==
                CASE node.t = "use" -> visit_item_use(v, deps, file_path, node)
                  [] node.t = "path" -> visit_path(v, deps, file_path, node)
                  [] node.t = "macro" -> visit_macro(v, deps, file_path, node, order)
         IN  visit_file(next, deps, file_path, file, i + 1, order)

UseKeyword == <<"u", "s", "e", " ">>
ExternCrateKeyword ==
    <<"e", "x", "t", "e", "r", "n", " ", "c", "r", "a", "t", "e", " ">>

\* RustAnalyzer::process_use_statement
process_use_statement(line, line_number, file_path, deps, usage_data) ==
    LET rest == trim_start_matches(trim(line), UseKeyword)
    IN  push_for_dependencies(usage_data, deps, 1, first_part(rest),
            Usage(file_path, line_number, trim_end_matches(rest, ";"), "Import"))

\* RustAnalyzer::process_extern_crate
process_extern_crate(line, line_number, file_path, deps, usage_data) ==
    LET rest == trim_start_matches(trim(line), ExternCrateKeyword)
        crate_name == trim_end_matches(first_word(rest), ";")
    IN  push_for_dependencies(usage_data, deps, 1, crate_name,
            Usage(file_path, line_number, crate_name, "Import"))

\* RustAnalyzer::analyze_file_simple: the lines of the text, numbered from 1
RECURSIVE analyze_file_simple(_, _, _, _, _)
analyze_file_simple(file_content, line_number, file_path, deps, usage_data) ==
    IF line_number > Len(file_content) THEN usage_data
    ELSE LET line == file_content[line_number]
             used ==
                IF starts_with(trim(line), UseKeyword)
                THEN process_use_statement(line, line_number, file_path, deps, usage_data)
                ELSE usage_data
             externed ==
                IF starts_with(trim(line), ExternCrateKeyword)
                THEN process_extern_crate(line, line_number, file_path, deps, used)
                ELSE used
         IN  analyze_file_simple(file_content, line_number + 1, file_path, deps, externed)

\* analyze_file with a visitor whose import table already binds b to x::b
analyze_file_stale_imports(file_path, file, deps, usage_data, order) ==
    IF ~file.readable THEN [result |-> "Err", usage_data |-> usage_data]
    ELSE IF file.parses
    THEN [result |-> "Ok",
          usage_data |->
              visit_file(Visitor(usage_data, Put(EmptyMap, <<"b">>, <<"x", ":", ":", "b">>)),
                         deps, file_path, file.syntax, 1, order).usage_data]
    ELSE [result |-> "Ok",
          usage_data |-> analyze_file_simple(file.content, 1, file_path, deps, usage_data)]

\* RustAnalyzer::analyze_file: the file is read (an error ends the call), then
\* parsed and walked by a visitor with an empty import table, or, when the
\* parse fails, scanned line by line
analyze_file(file_path, file, deps, usage_data, order) ==
    IF ~file.readable THEN [result |-> "Err", usage_data |-> usage_data]
    ELSE IF file.parses
    THEN [result |-> "Ok",
          usage_data |-> visit_file(Visitor(usage_data, EmptyMap), deps, file_path,
                                    file.syntax, 1, order).usage_data]
    ELSE [result |-> "Ok",
          usage_data |-> analyze_file_simple(file.content, 1, file_path, deps, usage_data)]

A == <<"a">>
B == <<"b">>
F == <<"f">>
M == <<"m">>
T == <<"T">>
X == <<"x">>
Y == <<"y">>
Z == <<"z">>
C == <<"c">>

\* The source files of the model, by their syntax trees.
SourceFiles ==
    << \* z::a();  use z::b;  b()       (z is no crate of a manifest)
       << Path(<<Z, A>>, FALSE), ItemUse(UsePath(Z, UseName(B))), Path(<<B>>, FALSE) >>,
       \* use x::{b, T as a};  a::f()
       << ItemUse(UsePath(X, UseGroup(<<UseName(B), UseRename(T, A)>>))),
          Path(<<A, F>>, FALSE) >>,
       \* use y::*;  y::a::T;  y::m!();  b()
       << ItemUse(UsePath(Y, UseGlob)), Path(<<Y, A, T>>, FALSE), Macro(<<Y, M>>),
          Path(<<B>>, FALSE) >>,
       \* use x::m;  use y::b;  m!();  y::f::<T>()
       << ItemUse(UsePath(X, UseName(M))), ItemUse(UsePath(Y, UseName(B))),
          Macro(<<M>>), Path(<<Y, F>>, TRUE) >> >>

\* The text of a file that does not parse:
\*     use x::a;
\*       use y::b;
\*     extern crate y;
\*     use x;
\*     use z::a;
\*     }{
BrokenText ==
    << UseKeyword \o join(<<X, A>>) \o <<";">>,
       <<" ", " ">> \o UseKeyword \o join(<<Y, B>>) \o <<";">>,
       ExternCrateKeyword \o Y \o <<";">>,
       UseKeyword \o X \o <<";">>,
       UseKeyword \o join(<<Z, A>>) \o <<";">>,
       <<"}", "{">> >>

\* A file of the tree: whether fs::read_to_string returns its text, the text
\* by lines, whether parse_file accepts it, and the syntax tree. The text of
\* a file that parses stands behind its syntax tree.
ParsedFile(syntax) ==
    [readable |-> TRUE, content |-> <<>>, parses |-> TRUE, syntax |-> syntax]
BrokenFile(content) ==
    [readable |-> TRUE, content |-> content, parses |-> FALSE, syntax |-> <<>>]
UnreadableFile ==
    [readable |-> FALSE, content |-> <<>>, parses |-> FALSE, syntax |-> <<>>]

\* The files a project tree of the model is made of.
ProjectFiles ==
    [i \in 1..Len(SourceFiles) |-> ParsedFile(SourceFiles[i])]
        \o <<BrokenFile(BrokenText), UnreadableFile>>

\* the iteration orders of an import table, by local name
HashOrders == { <<A, B, M>>, <<M, B, A>> }

----------------------------------------------------------------------------
(* The dependency graph: analyzer/dependency_graph.rs *)

\* DiGraph<String, ()>: the node weights in index order (the node of index i
\* is the i-th, counted from 1) and the edges in the order they were added;
\* parallel edges and self loops are kept.
DiGraph_new == [nodes |-> <<>>, edges |-> <<>>]

add_node(g, weight) == [g EXCEPT !.nodes = Append(@, weight)]

add_edge(g, a, b) == [g EXCEPT !.edges = Append(@, <<a, b>>)]

\* the nodes a depth-first search from the visited nodes reaches
RECURSIVE dfs(_, _)
dfs(g, visited) ==
    LET next == visited \cup
                  { g.edges[k][2] : k \in { j \in DOMAIN g.edges : g.edges[j][1] \in visited } }
    IN  IF next = visited THEN visited ELSE dfs(g, next)

\* algo::has_path_connecting: the search starts at from, so from reaches itself
has_path_connecting(g, from, to) == to \in dfs(g, {from})

RECURSIVE ascending(_)
ascending(S) ==
    IF S = {} THEN <<>>
    ELSE LET least == CHOOSE n \in S : \A m \in S : n <= m
         IN  <<least>> \o ascending(S \ {least})

\* algo::tarjan_scc: the strongly connected components, every node in exactly
\* one. The order of the components and of the nodes within one is the
\* library's; here a component comes at its smallest node, nodes ascending.
RECURSIVE tarjan_scc_from(_, _, _)
tarjan_scc_from(g, idx, emitted) ==
    IF idx > Len(g.nodes) THEN <<>>
    ELSE IF idx \in emitted THEN tarjan_scc_from(g, idx + 1, emitted)
    ELSE LET scc == { n \in dfs(g, {idx}) : idx \in dfs(g, {n}) }
         IN  <<ascending(scc)>> \o tarjan_scc_from(g, idx + 1, emitted \cup scc)

tarjan_scc(g) == tarjan_scc_from(g, 1, {})

\* DependencyGraph::new: a node for every record, and the name mapped to the
\* node added last under it
RECURSIVE new_nodes(_, _, _)
new_nodes(dg, deps, i) ==
    IF i > Len(deps) THEN dg
    ELSE LET graph == add_node(dg.graph, deps[i].name)
             node_idx == Len(graph.nodes)
         IN  new_nodes([graph |-> graph,
                        node_indices |-> Put(dg.node_indices, deps[i].name, node_idx)],
                       deps, i + 1)

DependencyGraph_new(deps) ==
    new_nodes([graph |-> DiGraph_new, node_indices |-> EmptyMap], deps, 1)

\* add_dependency adding the edge from the dependency to the dependent
add_dependency_reversed(dg, dependent, dependency) ==
    IF dependent \notin DOMAIN dg.node_indices THEN [result |-> "Err", dg |-> dg]
    ELSE IF dependency \notin DOMAIN dg.node_indices THEN [result |-> "Err", dg |-> dg]
    ELSE [result |-> "Ok",
          dg |-> [dg EXCEPT !.graph = add_edge(@, dg.node_indices[dependency],
                                                dg.node_indices[dependent])]]

\* DependencyGraph::add_dependency: an error and no change when either name
\* has no node, else an edge from the dependent to the dependency
add_dependency(dg, dependent, dependency) ==
    IF dependent \notin DOMAIN dg.node_indices THEN [result |-> "Err", dg |-> dg]
    ELSE IF dependency \notin DOMAIN dg.node_indices THEN [result |-> "Err", dg |-> dg]
    ELSE [result |-> "Ok",
          dg |-> [dg EXCEPT !.graph = add_edge(@, dg.node_indices[dependent],
                                                dg.node_indices[dependency])]]

\* the names of the nodes of a component, in the component's order
scc_names(dg, scc) == [k \in DOMAIN scc |-> dg.graph.nodes[scc[k]]]

RECURSIVE filter_sccs(_, _, _, _)
filter_sccs(dg, sccs, i, least) ==
    IF i > Len(sccs) THEN <<>>
    ELSE (IF Len(sccs[i]) >= least THEN <<scc_names(dg, sccs[i])>> ELSE <<>>)
         \o filter_sccs(dg, sccs, i + 1, least)

\* find_circular_dependencies keeping the components of one node too
find_circular_dependencies_with_singletons(dg) ==
    filter_sccs(dg, tarjan_scc(dg.graph), 1, 1)

\* find_circular_dependencies keeping only a component that holds the node
\* added first
find_circular_dependencies_of_first_node(dg) ==
    LET sccs == tarjan_scc(dg.graph)
        first == [k \in { j \in DOMAIN sccs : j = 1 } |-> sccs[k]]
    IN  filter_sccs(dg, first, 1, 2)

\* DependencyGraph::find_circular_dependencies
find_circular_dependencies(dg) ==
    filter_sccs(dg, tarjan_scc(dg.graph), 1, 2)

\* DependencyGraph::calculate_transitive_dependencies: the path asked for
\* leads from the node to the node itself. The lists are filled in the
\* iteration order of a HashMap, and are held as sets.
calculate_transitive_dependencies(dg) ==
    [dep_name \in DOMAIN dg.node_indices |->
        LET node_idx == dg.node_indices[dep_name]
            reachable == has_path_connecting(dg.graph, node_idx, node_idx)
        IN  { name \in DOMAIN dg.node_indices :
                dg.node_indices[name] # node_idx /\ reachable }]

\* DependencyGraph::from_cargo_lock: the graph of new; the file is not read
from_cargo_lock(lock, deps) == DependencyGraph_new(deps)

\* Cargo.lock: whether the file exists, and the edges between crates that it
\* describes
NoLock == [exists |-> FALSE, edges |-> {}]

\* DependencyAnalyzer::generate_dependency_graph
generate_dependency_graph(lock, deps) ==
    IF lock.exists THEN from_cargo_lock(lock, deps) ELSE DependencyGraph_new(deps)

----------------------------------------------------------------------------
(* The analysis of a project: DependencyAnalyzer::analyze *)

Init ==
    /\ pc = "parse_manifest"
    /\ manifest \in Manifests
    /\ dependencies = <<>>
    /\ usage_locations = EmptyMap
    /\ file_no = 0
    /\ walked = <<>>
    /\ metrics = DefaultMetrics
    /\ cargo_lock = NoLock
    /\ dependency_graph = DependencyGraph_new(<<>>)
    /\ analysis = <<>>
    /\ graph_query = <<>>
    /\ config = Config_default
    /\ app = NoApp

\* self.parse_manifest(&manifest_path)
ParseManifest ==
    /\ pc = "parse_manifest"
    /\ dependencies' = CargoParser_parse(manifest)
    /\ pc' = "analyze_code"
    /\ UNCHANGED <<manifest, usage_locations, file_no, walked, metrics, cargo_lock,
                   dependency_graph, analysis, graph_query, config, app>>

\* the usage index RustAnalyzer::analyze starts from: an empty sequence for
\* every dependency
initial_usage_locations(deps) == [name \in DepNames(deps) |-> <<>>]

\* RustAnalyzer::analyze, before the walk
AnalyzeInit ==
    /\ pc = "analyze_code"
    /\ usage_locations' = initial_usage_locations(dependencies)
    /\ pc' = "walk"
    /\ UNCHANGED <<manifest, dependencies, file_no, walked, metrics, cargo_lock,
                   dependency_graph, analysis, graph_query, config, app>>

\* RustAnalyzer::analyze, one file of the walk; the file's path is its
\* place in the walk. An error of analyze_file is the error of the run.
AnalyzeFile ==
    /\ pc = "walk"
    /\ file_no < MaxFiles
    /\ \E i \in 1..Len(ProjectFiles), order \in HashOrders :
          LET done == analyze_file(file_no + 1, ProjectFiles[i], dependencies,
                                   usage_locations, order)
          IN  /\ usage_locations' = done.usage_data
              /\ pc' = IF done.result = "Ok" THEN "walk" ELSE "failed"
              /\ walked' = Append(walked, i)
    /\ file_no' = file_no + 1
    /\ UNCHANGED <<manifest, dependencies, metrics, cargo_lock, dependency_graph,
                   analysis, graph_query, config, app>>

\* RustAnalyzer::analyze as a function of the dependency list, the files of
\* the tree in the order of the walk, and the iteration order of the import
\* table of each file's visitor
RECURSIVE walk_files(_, _, _, _, _)
walk_files(deps, tree, orders, i, usage_data) ==
    IF i > Len(tree) THEN [result |-> "Ok", usage_data |-> usage_data]
    ELSE LET done == analyze_file(i, ProjectFiles[tree[i]], deps, usage_data, orders[i])
         IN  IF done.result = "Ok"
             THEN walk_files(deps, tree, orders, i + 1, done.usage_data)
             ELSE done

RustAnalyzer_analyze(deps, tree, orders) ==
    walk_files(deps, tree, orders, 1, initial_usage_locations(deps))

\* the walk is over: self.calculate_metrics(&dependencies, &usage_data)
CalculateMetrics ==
    /\ pc = "walk"
    /\ metrics' = calculate_metrics(dependencies, usage_locations)
    /\ pc' = "generate_graph"
    /\ UNCHANGED <<manifest, dependencies, usage_locations, file_no, walked, cargo_lock,
                   dependency_graph, analysis, graph_query, config, app>>

\* the lock files of the model
LockFiles ==
    { NoLock, [exists |-> TRUE, edges |-> {<<X, Y>>, <<Y, X>>}] }

\* self.generate_dependency_graph(&dependencies): Cargo.lock is looked for
GenerateDependencyGraph ==
    /\ pc = "generate_graph"
    /\ \E lock \in LockFiles :
          /\ cargo_lock' = lock
          /\ dependency_graph' = generate_dependency_graph(lock, dependencies)
    /\ pc' = "view"
    /\ UNCHANGED <<manifest, dependencies, usage_locations, file_no, walked, metrics,
                   analysis, graph_query, config, app>>

\* the rows of analyzer::analyze: one for every record of the manifest list.
\* The feature lists are filled in the iteration order of a HashMap, and are
\* held as sets.
AnalyzedDependency(dep, m) ==
    LET name == dep.name
        feature_map == IF name \in DOMAIN m.feature_usage
                       THEN m.feature_usage[name] ELSE EmptyMap
    IN  [name |-> name,
         usage_count |-> IF name \in DOMAIN m.usage_count THEN m.usage_count[name] ELSE 0,
         importance_score |-> IF name \in DOMAIN m.importance_scores
                              THEN m.importance_scores[name] ELSE 0,
         removable |-> name \in m.removable_dependencies,
         used_features |-> { f \in DOMAIN feature_map : feature_map[f] },
         unused_features |-> { f \in DOMAIN feature_map : ~feature_map[f] }]

\* analyzer::analyze, after analyzer.analyze() has returned: the manifest
\* list is the one perform_analysis parsed from the same Cargo.toml
AnalysisView ==
    /\ pc = "view"
    /\ LET parsed == CargoParser_parse(manifest)
       IN  analysis' = [i \in DOMAIN parsed |-> AnalyzedDependency(parsed[i], metrics)]
    /\ pc' = "done"
    /\ UNCHANGED <<manifest, dependencies, usage_locations, file_no, walked, metrics,
                   cargo_lock, dependency_graph, graph_query, config, app>>

Next ==
    \/ ParseManifest
    \/ AnalyzeInit
    \/ AnalyzeFile
    \/ CalculateMetrics
    \/ GenerateDependencyGraph
    \/ AnalysisView

Spec == Init /\ [][Next]_vars

----------------------------------------------------------------------------
(* calculate_metrics as a function of its arguments: one dependency record *)
(* of any class, and the usage data of a project of up to MaxScoreFiles    *)
(* files that all hold the same usage sites, of any choice of usage types. *)

ScoreDependencies ==
    { [name |-> X, features |-> FeatureLists[i], optional |-> o, dependency_type |-> t] :
        i \in 1..Len(FeatureLists), o \in BOOLEAN, t \in DependencyType }

EmptyManifest == [t \in DependencyType |-> [i \in 1..Len(CrateNames) |-> NoEntry]]

KindOrder == <<"Import", "Function", "Type", "Trait", "Macro", "Other">>

\* the text recorded with a usage site of each type
SiteText(kind) ==
    CASE kind = "Import" -> join(<<X, A>>)
      [] kind = "Function" -> join(<<X, F>>)
      [] kind = "Type" -> join(<<X, T>>)
      [] kind = "Trait" -> join(<<X, A, T>>)
      [] kind = "Macro" -> M \o <<"!">>
      [] kind = "Other" -> join(<<X, B>>)

\* the usage sites of one file: one site of each type in kinds
RECURSIVE FileSites(_, _, _)
FileSites(file, kinds, i) ==
    IF i > Len(KindOrder) THEN <<>>
    ELSE (IF KindOrder[i] \in kinds
          THEN <<Usage(file, 0, SiteText(KindOrder[i]), KindOrder[i])>>
          ELSE <<>>)
         \o FileSites(file, kinds, i + 1)

\* the usage types of the sites of the first file
FirstFileKinds(usages) ==
    { usages[i].usage_type : i \in { j \in DOMAIN usages : usages[j].file = 1 } }

InitScore ==
    /\ pc = "score_input"
    /\ manifest = EmptyManifest
    /\ dependencies \in { <<dep>> : dep \in ScoreDependencies }
    /\ usage_locations \in { EmptyMap, [name \in {X} |-> <<>>] }
    /\ file_no = 0
    /\ walked = <<>>
    /\ metrics = DefaultMetrics
    /\ cargo_lock = NoLock
    /\ dependency_graph = DependencyGraph_new(<<>>)
    /\ analysis = <<>>
    /\ graph_query = <<>>
    /\ config \in { Config_load(file) : file \in ConfigFiles }
    /\ app = NoApp

\* one more file of the project, with the usage sites of the first
ScoreAddFile ==
    /\ pc = "score_input"
    /\ X \in DOMAIN usage_locations
    /\ file_no < MaxScoreFiles
    /\ \E kinds \in (SUBSET UsageType) \ {{}} :
          /\ file_no > 0 => kinds = FirstFileKinds(usage_locations[X])
          /\ usage_locations' =
                [usage_locations EXCEPT ![X] = @ \o FileSites(file_no + 1, kinds, 1)]
    /\ file_no' = file_no + 1
    /\ UNCHANGED <<pc, manifest, dependencies, walked, metrics, cargo_lock,
                   dependency_graph, analysis, graph_query, config, app>>

\* calculate_metrics(&dependencies, &usage_data)
ScoreCalculate ==
    /\ pc = "score_input"
    /\ metrics' = calculate_metrics(dependencies, usage_locations)
    /\ pc' = "score_done"
    /\ UNCHANGED <<manifest, dependencies, usage_locations, file_no, walked, cargo_lock,
                   dependency_graph, analysis, graph_query, config, app>>

NextScore == ScoreAddFile \/ ScoreCalculate

SpecScore == InitScore /\ [][NextScore]_vars

----------------------------------------------------------------------------
(* The scanner alone: RustAnalyzer::analyze on the dependency list of a    *)
(* manifest whose entries are version strings, in the runtime and the      *)
(* development table.                                                      *)

ScanManifests ==
    { m \in Manifests :
        \A t \in DependencyType, i \in 1..Len(CrateNames) :
            /\ m[t][i].kind \in {"none", "string"}
            /\ t = "Build" => m[t][i] = NoEntry }

InitScan ==
    /\ pc = "analyze_code"
    /\ manifest \in ScanManifests
    /\ dependencies = CargoParser_parse(manifest)
    /\ usage_locations = EmptyMap
    /\ file_no = 0
    /\ walked = <<>>
    /\ metrics = DefaultMetrics
    /\ cargo_lock = NoLock
    /\ dependency_graph = DependencyGraph_new(<<>>)
    /\ analysis = <<>>
    /\ graph_query = <<>>
    /\ config = Config_default
    /\ app = NoApp

NextScan == AnalyzeInit \/ AnalyzeFile

SpecScan == InitScan /\ [][NextScan]_vars

----------------------------------------------------------------------------
(* The dependency graph as an object: new on a dependency list, then calls *)
(* of add_dependency, then a query.                                        *)

GraphNames == <<A, B, C>>

\* the lists over GraphNames of up to Len(GraphNames) records; the record of
\* a name's k-th occurrence is of the k-th table, as the parser would list it
GraphNameLists ==
    UNION { [1..n -> 1..Len(GraphNames)] : n \in 0..Len(GraphNames) }

TableOfOccurrence == <<"Normal", "Development", "Build">>

GraphDependencies(names) ==
    [i \in DOMAIN names |->
        [name |-> GraphNames[names[i]], features |-> <<>>, optional |-> FALSE,
         dependency_type |->
            TableOfOccurrence[Cardinality({ j \in 1..i : names[j] = names[i] })]]]

\* the names add_dependency is called with: the crates and a name no list has
CallNames == { GraphNames[i] : i \in DOMAIN GraphNames } \cup {Z}

InitGraph ==
    /\ pc = "graph_new"
    /\ manifest = EmptyManifest
    /\ dependencies \in { GraphDependencies(names) : names \in GraphNameLists }
    /\ usage_locations = EmptyMap
    /\ file_no = 0
    /\ walked = <<>>
    /\ metrics = DefaultMetrics
    /\ cargo_lock = NoLock
    /\ dependency_graph = DependencyGraph_new(dependencies)
    /\ analysis = <<>>
    /\ graph_query = <<>>
    /\ config = Config_default
    /\ app = NoApp

GraphBuilt == pc \in {"graph_new", "add_ok", "add_err"}

\* graph.add_dependency(dependent, dependency)
AddDependency ==
    /\ GraphBuilt
    /\ Len(dependency_graph.graph.edges) < MaxEdges
    /\ \E dependent \in CallNames, dependency \in CallNames :
          LET call == add_dependency(dependency_graph, dependent, dependency)
          IN  /\ dependency_graph' = call.dg
              /\ pc' = IF call.result = "Ok" THEN "add_ok" ELSE "add_err"
    /\ UNCHANGED <<manifest, dependencies, usage_locations, file_no, walked, metrics,
                   cargo_lock, analysis, graph_query, config, app>>

\* graph.find_circular_dependencies()
FindCircularDependencies ==
    /\ GraphBuilt
    /\ graph_query' = find_circular_dependencies(dependency_graph)
    /\ pc' = "circular"
    /\ UNCHANGED <<manifest, dependencies, usage_locations, file_no, walked, metrics,
                   cargo_lock, dependency_graph, analysis, config, app>>

\* graph.calculate_transitive_dependencies()
CalculateTransitiveDependencies ==
    /\ GraphBuilt
    /\ graph_query' = calculate_transitive_dependencies(dependency_graph)
    /\ pc' = "transitive"
    /\ UNCHANGED <<manifest, dependencies, usage_locations, file_no, walked, metrics,
                   cargo_lock, dependency_graph, analysis, config, app>>

NextGraph ==
    \/ AddDependency
    \/ FindCircularDependencies
    \/ CalculateTransitiveDependencies

SpecGraph == InitGraph /\ [][NextGraph]_vars

----------------------------------------------------------------------------
(* The interactive application: tui/app.rs. The project of the model holds *)
(* one source file; its manifest declares y and x, each once.              *)

MaxQuery == 1
MaxTicks == 1

UpperLetters ==
    <<"A", "B", "C", "D", "E", "F", "G", "H", "I", "J", "K", "L", "M",
      "N", "O", "P", "Q", "R", "S", "T", "U", "V", "W", "X", "Y", "Z">>

LowerLetters ==
    <<"a", "b", "c", "d", "e", "f", "g", "h", "i", "j", "k", "l", "m",
      "n", "o", "p", "q", "r", "s", "t", "u", "v", "w", "x", "y", "z">>

\* str::to_lowercase, on the letters of the model
to_lowercase(str) ==
    [i \in DOMAIN str |->
        IF \E n \in DOMAIN UpperLetters : UpperLetters[n] = str[i]
        THEN LowerLetters[CHOOSE n \in DOMAIN UpperLetters : UpperLetters[n] = str[i]]
        ELSE str[i]]

\* the place of a letter in the order of the bytes
byte(ch) ==
    LET letters == UpperLetters \o LowerLetters
    IN  CHOOSE n \in DOMAIN letters : letters[n] = ch

\* Ord::cmp of two numbers: -1 for Less, 0 for Equal, 1 for Greater
cmp(a, b) == IF a < b THEN -1 ELSE IF a > b THEN 1 ELSE 0

\* str::cmp: the order of the bytes, a proper prefix first
RECURSIVE str_cmp(_, _)
str_cmp(a, b) ==
    IF a = <<>> THEN (IF b = <<>> THEN 0 ELSE -1)
    ELSE IF b = <<>> THEN 1
    ELSE IF a[1] # b[1] THEN cmp(byte(a[1]), byte(b[1]))
    ELSE str_cmp(Tail(a), Tail(b))

\* SortOption::next
SortOption_next(option) ==
    CASE option = "Name" -> "UsageCount"
      [] option = "UsageCount" -> "Importance"
      [] option = "Importance" -> "Type"
      [] option = "Type" -> "Removable"
      [] option = "Removable" -> "Name"

\* FilterOption::next
FilterOption_next(option) ==
    CASE option = "All" -> "Normal"
      [] option = "Normal" -> "Dev"
      [] option = "Dev" -> "Build"
      [] option = "Build" -> "Unused"
      [] option = "Unused" -> "Removable"
      [] option = "Removable" -> "All"

None == [some |-> FALSE, value |-> <<>>]
Some(value) == [some |-> TRUE, value |-> value]

\* App::new; the project path is the manifest and the files of the model
App_new(filter_dep) ==
    [analysis |-> None,
     should_quit |-> FALSE,
     current_tab |-> 0,
     selected_dependency |-> 0,
     sort_option |-> "Name",
     sort_reverse |-> FALSE,
     filter_option |-> "All",
     filter_dep |-> filter_dep,
     search_query |-> <<>>,
     is_searching |-> FALSE,
     show_help |-> FALSE,
     detail_view |-> 0,
     enable_dependency_graph |-> FALSE,
     tick_count |-> 0]

\* the key events of the model: the keys that handle_key_event names, two
\* letters that it does not name, and a key without a meaning
KeyChars == {"q", "?", "j", "k", "s", "r", "f", "/", "l", "h", "x", "X"}

Keys ==
    { [code |-> code, ch |-> ""] :
        code \in {"Esc", "Enter", "Backspace", "Tab", "BackTab", "Down", "Up",
                  "Right", "Left", "Home"} }
    \cup { [code |-> "Char", ch |-> ch] : ch \in KeyChars }

\* the letters typed into the search box
SearchChars == {"x", "X"}

\* the retain closure of filtered_dependencies, for the index i (from 0)
retained(a, i) ==
    LET result == a.analysis.value
        dep == result.dependencies[i + 1]
        filter_match ==
            CASE a.filter_option = "All" -> TRUE
              [] a.filter_option = "Normal" -> dep.dependency_type = "Normal"
              [] a.filter_option = "Dev" -> dep.dependency_type = "Development"
              [] a.filter_option = "Build" -> dep.dependency_type = "Build"
              [] a.filter_option = "Unused" ->
                    ~(IF dep.name \in DOMAIN result.metrics.is_used
                      THEN result.metrics.is_used[dep.name] ELSE TRUE)
              [] a.filter_option = "Removable" ->
                    dep.name \in result.metrics.removable_dependencies
        search_match ==
            IF a.search_query # <<>>
            THEN contains(to_lowercase(dep.name), to_lowercase(a.search_query))
            ELSE TRUE
    IN  filter_match /\ search_match

\* the comparison closure of filtered_dependencies, for the indices x and y
compare(a, x, y) ==
    LET result == a.analysis.value
        dep_a == result.dependencies[x + 1]
        dep_b == result.dependencies[y + 1]
        get(map, name, default) == IF name \in DOMAIN map THEN map[name] ELSE default
        type_order(dep_type) ==
            CASE dep_type = "Normal" -> 0
              [] dep_type = "Development" -> 1
              [] dep_type = "Build" -> 2
        as_number(flag) == IF flag THEN 1 ELSE 0
        ordering ==
            CASE a.sort_option = "Name" -> str_cmp(dep_a.name, dep_b.name)
              [] a.sort_option = "UsageCount" ->
                    cmp(get(result.metrics.usage_count, dep_a.name, 0),
                        get(result.metrics.usage_count, dep_b.name, 0))
              [] a.sort_option = "Importance" ->
                    cmp(get(result.metrics.importance_scores, dep_a.name, 0),
                        get(result.metrics.importance_scores, dep_b.name, 0))
              [] a.sort_option = "Type" ->
                    cmp(type_order(dep_a.dependency_type), type_order(dep_b.dependency_type))
              [] a.sort_option = "Removable" ->
                    cmp(as_number(dep_a.name \in result.metrics.removable_dependencies),
                        as_number(dep_b.name \in result.metrics.removable_dependencies))
    IN  IF a.sort_reverse THEN 0 - ordering ELSE ordering

\* indices.retain(..)
RECURSIVE retain(_, _, _)
retain(a, i, n) ==
    IF i >= n THEN <<>>
    ELSE (IF retained(a, i) THEN <<i>> ELSE <<>>) \o retain(a, i + 1, n)

\* one element put into a sorted sequence, behind the elements that compare
\* equal to it
RECURSIVE sort_insert(_, _, _)
sort_insert(a, sorted, e) ==
    IF sorted = <<>> THEN <<e>>
    ELSE IF compare(a, e, sorted[Len(sorted)]) < 0
    THEN Append(sort_insert(a, SubSeq(sorted, 1, Len(sorted) - 1), e), sorted[Len(sorted)])
    ELSE Append(sorted, e)

\* indices.sort_by(..): a stable sort
RECURSIVE sort_by(_, _, _)
sort_by(a, indices, n) ==
    IF n = 0 THEN <<>>
    ELSE sort_insert(a, sort_by(a, indices, n - 1), indices[n])

\* App::filtered_dependencies: indices from 0 into analysis.dependencies
filtered_dependencies(a) ==
    IF a.analysis.some
    THEN LET indices == retain(a, 0, Len(a.analysis.value.dependencies))
         IN  sort_by(a, indices, Len(indices))
    ELSE <<>>

\* App::actual_selected_index: filtered.get(self.selected_dependency)
actual_selected_index(a) ==
    LET filtered == filtered_dependencies(a)
    IN  IF a.selected_dependency < Len(filtered)
        THEN Some(filtered[a.selected_dependency + 1])
        ELSE None

Max(a, b) == IF a > b THEN a ELSE b

\* App::handle_key_event
handle_key_event(a, key) ==
    IF a.is_searching
    THEN CASE key.code = "Esc" -> [a EXCEPT !.is_searching = FALSE, !.search_query = <<>>]
           [] key.code = "Enter" -> [a EXCEPT !.is_searching = FALSE]
           [] key.code = "Backspace" ->
                 [a EXCEPT !.search_query =
                     IF @ = <<>> THEN <<>> ELSE SubSeq(@, 1, Len(@) - 1)]
           [] key.code = "Char" -> [a EXCEPT !.search_query = Append(@, key.ch)]
           [] OTHER -> a
    ELSE LET len == Max(Len(filtered_dependencies(a)), 1)
         IN  CASE key.code = "Esc" \/ (key.code = "Char" /\ key.ch = "q") ->
                    [a EXCEPT !.should_quit = TRUE]
               [] key.code = "Char" /\ key.ch = "?" -> [a EXCEPT !.show_help = ~@]
               [] key.code = "Tab" ->
                    [a EXCEPT !.current_tab = (@ + 1) % 3, !.selected_dependency = 0]
               [] key.code = "BackTab" ->
                    [a EXCEPT !.current_tab = (@ + 2) % 3, !.selected_dependency = 0]
               [] key.code = "Down" \/ (key.code = "Char" /\ key.ch = "j") ->
                    IF a.analysis.some
                    THEN [a EXCEPT !.selected_dependency = (@ + 1) % len]
                    ELSE a
               [] key.code = "Up" \/ (key.code = "Char" /\ key.ch = "k") ->
                    IF a.analysis.some
                    THEN [a EXCEPT !.selected_dependency = (@ + len - 1) % len]
                    ELSE a
               [] key.code = "Char" /\ key.ch = "s" ->
                    [a EXCEPT !.sort_option = SortOption_next(@)]
               [] key.code = "Char" /\ key.ch = "r" -> [a EXCEPT !.sort_reverse = ~@]
               [] key.code = "Char" /\ key.ch = "f" ->
                    [a EXCEPT !.filter_option = FilterOption_next(@),
                              !.selected_dependency = 0]
               [] key.code = "Char" /\ key.ch = "/" ->
                    [a EXCEPT !.is_searching = TRUE, !.search_query = <<>>]
               [] key.code = "Right" \/ (key.code = "Char" /\ key.ch = "l") ->
                    IF a.current_tab = 1 THEN [a EXCEPT !.detail_view = (@ + 1) % 3] ELSE a
               [] key.code = "Left" \/ (key.code = "Char" /\ key.ch = "h") ->
                    IF a.current_tab = 1 THEN [a EXCEPT !.detail_view = (@ + 2) % 3] ELSE a
               [] OTHER -> a

\* the place (from 0) of the first record of the list with the name, if any
position(deps, name) ==
    LET places == { i \in DOMAIN deps : deps[i].name = name }
    IN  IF places = {} THEN None
        ELSE Some((CHOOSE i \in places : \A j \in places : i <= j) - 1)

\* App::run_analysis, after analyzer.analyze() has returned the result
run_analysis(a, result) ==
    LET loaded == [a EXCEPT !.analysis = Some(result)]
        found == IF a.filter_dep.some
                 THEN position(result.dependencies, a.filter_dep.value) ELSE None
    IN  IF found.some THEN [loaded EXCEPT !.selected_dependency = found.value]
        ELSE loaded

\* DependencyAnalyzer::analyze, as a function of the manifest, the files of
\* the tree, the iteration orders of the import tables and the lock file
DependencyAnalyzer_analyze(m, tree, orders, lock) ==
    LET deps == CargoParser_parse(m)
        scan == RustAnalyzer_analyze(deps, tree, orders)
    IN  IF scan.result # "Ok" THEN [result |-> "Err", value |-> <<>>]
        ELSE [result |-> "Ok",
              value |-> [dependencies |-> deps,
                         usage_data |-> scan.usage_data,
                         metrics |-> calculate_metrics(deps, scan.usage_data),
                         dependency_graph |-> generate_dependency_graph(lock, deps)]]

\* the manifests of the application's projects: y is a runtime dependency,
\* x a runtime or a development dependency
AppManifest(table) ==
    [t \in DependencyType |->
        [i \in 1..Len(CrateNames) |->
            IF (CrateNames[i] = Y /\ t = "Normal") \/ (CrateNames[i] = X /\ t = table)
            THEN [kind |-> "string", features |-> <<>>, optional |-> FALSE]
            ELSE NoEntry]]

AppManifests == { AppManifest(table) : table \in {"Normal", "Development"} }

\* the source trees of the application's projects, as lists of files in the
\* order of the walk: the file that uses x alone, and the file that cannot
\* be read
AppTrees == { <<2>>, <<6>> }

\* run: the app is created for the project and the filter of the command
\* line, and the graph view is switched on or off
InitApp ==
    /\ pc = "run_analysis"
    /\ manifest \in AppManifests
    /\ dependencies = <<>>
    /\ usage_locations = EmptyMap
    /\ file_no = 0
    /\ walked = <<>>
    /\ metrics = DefaultMetrics
    /\ cargo_lock = NoLock
    /\ dependency_graph = DependencyGraph_new(<<>>)
    /\ analysis = <<>>
    /\ graph_query = <<>>
    /\ config = Config_default
    /\ \E filter_dep \in {None, Some(X), Some(Y), Some(Z)}, enable_deps \in BOOLEAN :
          app = [App_new(filter_dep) EXCEPT !.enable_dependency_graph = enable_deps]

\* app.run_analysis()?: an error of the analysis ends the run
RunAnalysis ==
    /\ pc = "run_analysis"
    /\ \E tree \in AppTrees, order \in HashOrders, lock \in LockFiles :
          LET done == DependencyAnalyzer_analyze(manifest, tree,
                                                 [i \in DOMAIN tree |-> order], lock)
          IN  /\ IF done.result = "Ok"
                 THEN /\ app' = run_analysis(app, done.value)
                      /\ pc' = "events"
                 ELSE /\ app' = app
                      /\ pc' = "failed"
              /\ walked' = tree
    /\ UNCHANGED <<manifest, dependencies, usage_locations, file_no, metrics,
                   cargo_lock, dependency_graph, analysis, graph_query, config>>

\* the main loop, a key event: app.handle_key_event(key_event)
HandleKeyEvent ==
    /\ pc = "events"
    /\ \E key \in Keys :
          /\ (app.is_searching /\ key.code = "Char") =>
                key.ch \in SearchChars /\ Len(app.search_query) < MaxQuery
          /\ app' = handle_key_event(app, key)
    /\ pc' = IF app'.should_quit THEN "done" ELSE "events"
    /\ UNCHANGED <<manifest, dependencies, usage_locations, file_no, walked, metrics,
                   cargo_lock, dependency_graph, analysis, graph_query, config>>

\* the main loop, a tick: the counter of the animations
Tick ==
    /\ pc = "events"
    /\ app.tick_count < MaxTicks
    /\ app' = [app EXCEPT !.tick_count = @ + 1]
    /\ UNCHANGED <<pc, manifest, dependencies, usage_locations, file_no, walked, metrics,
                   cargo_lock, dependency_graph, analysis, graph_query, config>>

NextApp == RunAnalysis \/ HandleKeyEvent \/ Tick

SpecApp == InitApp /\ [][NextApp]_vars

----------------------------------------------------------------------------
(* The claims *)

Finished == pc \in {"done", "score_done"}

\* the usage sequence of a name: empty when the index has no such key
UsagesOf(name) ==
    IF name \in DOMAIN usage_locations THEN usage_locations[name] ELSE <<>>

DeclaredFeatures(dep) == { dep.features[i] : i \in DOMAIN dep.features }

\* the number of files that hold a usage site, counted by each file's first site
FirstSites(usages) ==
    { i \in DOMAIN usages : \A j \in 1..(i - 1) : usages[j].file # usages[i].file }

\* C1: a dependency whose usage sequence is empty, or that has no key in the
\* usage index, is stored as not used and with the score 0.0, whatever its
\* class, optional flag and features.
C1_UnusedScoresZero ==
    Finished =>
        \A i \in DOMAIN dependencies :
            LET d == dependencies[i]
            IN  UsagesOf(d.name) = <<>> =>
                    /\ d.name \in DOMAIN metrics.is_used
                    /\ metrics.is_used[d.name] = FALSE
                    /\ d.name \in DOMAIN metrics.importance_scores
                    /\ metrics.importance_scores[d.name] = 0

\* C1 happens: metrics of an optional development dependency with features
\* that has no key in the usage index
C1_Witness ==
    /\ pc = "score_done"
    /\ usage_locations = EmptyMap
    /\ dependencies[1].optional
    /\ dependencies[1].dependency_type = "Development"
    /\ dependencies[1].features # <<>>
    /\ metrics.is_used[X] = FALSE

\* C2: every stored importance score lies in [0.0, 1.0].
C2_ScoreInUnitInterval ==
    Finished =>
        \A name \in DOMAIN metrics.importance_scores :
            /\ 0 <= metrics.importance_scores[name]
            /\ metrics.importance_scores[name] <= ScoreDen

\* C2 happens: a runtime dependency used in fewer than 20 files whose factors
\* multiply to more than 1.0, and one whose score is strictly between 0 and 1
C2_Witness ==
    /\ pc = "score_done"
    /\ file_no = 10
    /\ dependencies[1].dependency_type = "Normal"
    /\ ~dependencies[1].optional
    /\ DOMAIN metrics.usage_types[X] = UsageType
    /\ metrics.importance_scores[X] = ScoreDen

\* the five usage types the variety factor is said to count
FiveKinds == {"Import", "Function", "Type", "Trait", "Macro"}

\* the score as the claim states it, as a multiple of 1/ScoreDen
ClaimedDepth(usage_types) ==
    Min(1000,
        (IF type_count(usage_types, "Import") > 0 THEN 100 ELSE 0)
        + 30 * Min(type_count(usage_types, "Function"), 10)
        + 30 * Min(type_count(usage_types, "Type"), 10)
        + 60 * Min(type_count(usage_types, "Trait"), 5)
        + 20 * Min(type_count(usage_types, "Macro"), 10))

ClaimedVariety(usage_types) == Cardinality((DOMAIN usage_types) \cap FiveKinds)

ClaimedClassFactor(dep) ==
    IF dep.dependency_type = "Normal" THEN 10
    ELSE IF dep.dependency_type = "Build" THEN 7 ELSE 5

ClaimedScore(dep, file_count, usage_types) ==
    Min(ScoreDen,
        Min(file_count, 20) * (5 + ClaimedVariety(usage_types))
        * (1000 + ClaimedDepth(usage_types))
        * ClaimedClassFactor(dep) * (IF dep.optional THEN 7 ELSE 10))

\* C3: the score of a used dependency is min(1.0, base * (1 + variety) *
\* (1 + depth) * class_factor * optional_factor), with variety the share of
\* the five usage types that are present; with all five present and 25
\* files it is min(1.0, 2.0 * (1 + depth) * class_factor * optional_factor).
C3_ScoreFormula ==
    Finished =>
        \A i \in DOMAIN dependencies :
            LET d == dependencies[i]
            IN  UsagesOf(d.name) # <<>> =>
                    metrics.importance_scores[d.name] =
                        ClaimedScore(d, metrics.usage_count[d.name],
                                     metrics.usage_types[d.name])

\* C4: a dependency is in removable_dependencies exactly when it is unused,
\* or scores below 0.1, or is partially used and scores below 0.3; a
\* dependency without a usage site is always in it.
C4_RemovableRule ==
    Finished =>
        \A i \in DOMAIN dependencies :
            LET name == dependencies[i].name
                score == metrics.importance_scores[name]
            IN  /\ name \in metrics.removable_dependencies
                    <=> \/ ~metrics.is_used[name]
                        \/ 10 * score < ScoreDen
                        \/ metrics.is_partially_used[name] /\ 10 * score < 3 * ScoreDen
                /\ UsagesOf(name) = <<>> => name \in metrics.removable_dependencies

\* C4 happens: a partially used dependency that scores in [0.1, 0.3) and is
\* removable for that reason alone
C4_Witness ==
    /\ pc = "score_done"
    /\ metrics.is_used[X]
    /\ metrics.is_partially_used[X]
    /\ 10 * metrics.importance_scores[X] >= ScoreDen
    /\ 10 * metrics.importance_scores[X] < 3 * ScoreDen
    /\ X \in metrics.removable_dependencies

\* C5: with the usage tally, the class and the optional flag fixed, a larger
\* file count never gives a smaller score.
C5_MonotoneInFileCount ==
    pc = "score_done" /\ UsagesOf(X) # <<>> =>
        \A n \in 1..Min(Len(UsagesOf(X)), MaxScoreFiles) :
            LET s == calculate_importance_score(dependencies[1], UsagesOf(X), n,
                                                metrics.usage_types[X])
            IN  /\ n <= metrics.usage_count[X] => s <= metrics.importance_scores[X]
                /\ n >= metrics.usage_count[X] => s >= metrics.importance_scores[X]

\* C5 happens: more than 20 files and a score below 1.0, which is the score
\* of 20 files and more than the score of 19
C5_Witness ==
    /\ pc = "score_done"
    /\ metrics.usage_count[X] = 21
    /\ metrics.importance_scores[X] < ScoreDen
    /\ calculate_importance_score(dependencies[1], UsagesOf(X), 20, metrics.usage_types[X])
          = metrics.importance_scores[X]
    /\ calculate_importance_score(dependencies[1], UsagesOf(X), 19, metrics.usage_types[X])
          < metrics.importance_scores[X]

\* C6: usage_count is the number of distinct files among the dependency's
\* usage sites, and so at most the number of the sites.
C6_FileCount ==
    Finished =>
        \A i \in DOMAIN dependencies :
            LET name == dependencies[i].name
            IN  /\ metrics.usage_count[name] = Cardinality(FirstSites(UsagesOf(name)))
                /\ metrics.usage_count[name] <= Len(UsagesOf(name))

\* C6 happens: a dependency with usage sites in two files, more than one of
\* them in one file
C6_Witness ==
    /\ pc = "done"
    /\ X \in DOMAIN metrics.usage_count
    /\ metrics.usage_count[X] = 2
    /\ Len(usage_locations[X]) > 2

\* C7: feature_usage has one entry per declared feature, true exactly when a
\* usage site's text contains the feature's name.
C7_FeatureUsage ==
    Finished =>
        \A i \in DOMAIN dependencies :
            LET d == dependencies[i]
                feature_usage == metrics.feature_usage[d.name]
            IN  /\ DOMAIN feature_usage = DeclaredFeatures(d)
                /\ \A f \in DOMAIN feature_usage :
                      feature_usage[f] <=>
                          \E j \in DOMAIN UsagesOf(d.name) :
                              contains(UsagesOf(d.name)[j].imported_item, f)

\* C8: partially_used holds exactly when the dependency declares features
\* and one of them has a false feature_usage entry.
C8_PartiallyUsed ==
    Finished =>
        \A i \in DOMAIN dependencies :
            LET d == dependencies[i]
                feature_usage == metrics.feature_usage[d.name]
            IN  metrics.is_partially_used[d.name] <=>
                    /\ d.features # <<>>
                    /\ \E f \in DeclaredFeatures(d) :
                          f \in DOMAIN feature_usage /\ ~feature_usage[f]

\* C9: the variety factor is the number of the five usage types Import,
\* Function, Type, Trait and Macro that are present, over 5; it is at most
\* 1.0 and sites of type Other do not change it.
C9_VarietyOfFiveKinds ==
    Finished =>
        \A name \in DOMAIN metrics.usage_types :
            /\ variety_factor(metrics.usage_types[name])
                  = Cardinality((DOMAIN metrics.usage_types[name]) \cap FiveKinds)
            /\ variety_factor(metrics.usage_types[name]) <= 5

\* C10: throughout the scan and in its result the keys of the usage index
\* are exactly the declared dependency names.
C10_KeysAreDeclaredNames ==
    pc \in {"walk", "done"} => DOMAIN usage_locations = DepNames(dependencies)

\* C10 happens: between files, after files that name declared and undeclared
\* crates, one declared dependency has usage sites and another has none
C10_Witness ==
    /\ pc = "walk"
    /\ file_no = MaxFiles
    /\ \E k \in DOMAIN walked : walked[k] = 1
    /\ DepNames(dependencies) = {X, Y}
    /\ usage_locations[X] # <<>>
    /\ usage_locations[Y] = <<>>

\* C11: the list of records the manifest parser returns never holds two
\* records of the same name.
C11_UniqueNames ==
    pc # "parse_manifest" =>
        \A i \in DOMAIN dependencies, j \in DOMAIN dependencies :
            dependencies[i].name = dependencies[j].name => i = j

GraphNodeNames(dg) == { dg.graph.nodes[i] : i \in DOMAIN dg.graph.nodes }

\* the edges of a graph by the names of their ends, in the order added
GraphNameEdges(dg) ==
    [k \in DOMAIN dg.graph.edges |->
        <<dg.graph.nodes[dg.graph.edges[k][1]], dg.graph.nodes[dg.graph.edges[k][2]]>>]

\* C12: after new and any calls of add_dependency the graph has exactly one
\* node for every declared name and no other node, and node_indices maps
\* every name to its node.
C12_NodesAreDeclaredNames ==
    GraphBuilt =>
        /\ GraphNodeNames(dependency_graph) = DepNames(dependencies)
        /\ Len(dependency_graph.graph.nodes) = Cardinality(DepNames(dependencies))
        /\ DOMAIN dependency_graph.node_indices = DepNames(dependencies)
        /\ \A name \in DOMAIN dependency_graph.node_indices :
              dependency_graph.graph.nodes[dependency_graph.node_indices[name]] = name

\* a directed path of depends-on edges leads from the name a to the name b
DependsOnPath(dg, a, b) ==
    LET names == GraphNodeNames(dg)
        E == { GraphNameEdges(dg)[k] : k \in DOMAIN dg.graph.edges }
    IN  \E n \in 2..(Cardinality(names) + 1) :
            \E path \in [1..n -> names] :
                /\ path[1] = a
                /\ path[n] = b
                /\ \A i \in 1..(n - 1) : <<path[i], path[i + 1]>> \in E

MutuallyReachable(dg, a, b) == a = b \/ (DependsOnPath(dg, a, b) /\ DependsOnPath(dg, b, a))

\* the strongly connected components of more than one name
Cycles(dg) ==
    { S \in SUBSET GraphNodeNames(dg) :
        /\ Cardinality(S) > 1
        /\ \A a \in S, b \in S : MutuallyReachable(dg, a, b)
        /\ \A c \in GraphNodeNames(dg) \ S : \A a \in S : ~MutuallyReachable(dg, a, c) }

SeqRange(q) == { q[k] : k \in DOMAIN q }

\* the components a result of find_circular_dependencies lists, as sets
ComponentSets(found) == { SeqRange(found[k]) : k \in DOMAIN found }

\* C13: find_circular_dependencies returns exactly the strongly connected
\* components of more than one node, each once and each with all its names.
C13_CyclesAreLargeComponents ==
    pc = "circular" =>
        /\ ComponentSets(graph_query) = Cycles(dependency_graph)
        /\ Len(graph_query) = Cardinality(Cycles(dependency_graph))
        /\ \A k \in DOMAIN graph_query :
              Len(graph_query[k]) = Cardinality(SeqRange(graph_query[k]))

\* edges a->b, b->c, c->a: the one component {a, b, c} is returned
C13_Witness ==
    /\ pc = "circular"
    /\ SeqRange(GraphNameEdges(dependency_graph)) = {<<A, B>>, <<B, C>>, <<C, A>>}
    /\ Len(graph_query) = 1
    /\ SeqRange(graph_query[1]) = {A, B, C}

Reorderings(n) == { f \in [1..n -> 1..n] : \A i \in 1..n, j \in 1..n : f[i] = f[j] => i = j }

\* the graph of a dependency list with the given edges added in order
RECURSIVE GraphWithEdges(_, _, _)
GraphWithEdges(dg, edges, k) ==
    IF k > Len(edges) THEN dg
    ELSE GraphWithEdges(add_dependency(dg, edges[k][1], edges[k][2]).dg, edges, k + 1)

\* C14: for fixed edges, the graph built from any permutation of the
\* dependency list reports the same components, compared as sets of names.
C14_OrderIndependent ==
    GraphBuilt =>
        \A f \in Reorderings(Len(dependencies)) :
            LET permuted == [i \in DOMAIN dependencies |-> dependencies[f[i]]]
                rebuilt == GraphWithEdges(DependencyGraph_new(permuted),
                                          GraphNameEdges(dependency_graph), 1)
            IN  ComponentSets(find_circular_dependencies(rebuilt))
                    = ComponentSets(find_circular_dependencies(dependency_graph))

\* three crates, a cycle between the two listed last
C14_Witness ==
    /\ GraphBuilt
    /\ Cardinality(DepNames(dependencies)) = 3
    /\ LET found == find_circular_dependencies(dependency_graph)
       IN  /\ Len(found) = 1
           /\ dependencies[1].name \notin SeqRange(found[1])

\* C15: calculate_transitive_dependencies maps every dependency to exactly
\* the other names a directed path of depends-on edges leads to from it.
C15_TransitiveIsReachability ==
    pc = "transitive" =>
        /\ DOMAIN graph_query = DepNames(dependencies)
        /\ \A d \in DOMAIN graph_query :
              graph_query[d] =
                  { e \in DepNames(dependencies) \ {d} : DependsOnPath(dependency_graph, d, e) }

\* C16: with a lock file the graph of the run holds the edges that the lock
\* file describes between declared dependencies; without one it has the
\* declared names as nodes, no edge, and no cycle is found.
C16_LockSeedsEdges ==
    pc \in {"view", "done"} =>
        IF cargo_lock.exists
        THEN \A e \in cargo_lock.edges :
                (e[1] \in DepNames(dependencies) /\ e[2] \in DepNames(dependencies))
                    => e \in SeqRange(GraphNameEdges(dependency_graph))
        ELSE /\ GraphNodeNames(dependency_graph) = DepNames(dependencies)
             /\ dependency_graph.graph.edges = <<>>
             /\ find_circular_dependencies(dependency_graph) = <<>>

\* C17: a file that cannot be read never fails the scan.
C17_UnreadableFileSkipped ==
    (\E k \in DOMAIN walked : ~ProjectFiles[walked[k]].readable) => pc # "failed"

\* the identifier a text starts with
RECURSIVE Identifier(_)
Identifier(s) ==
    IF s = <<>> \/ s[1] \notin (Lowercase \cup Uppercase) THEN <<>>
    ELSE <<s[1]>> \o Identifier(Tail(s))

\* the leading path segment of an import statement
LeadingSegment(statement) ==
    Identifier(SubSeq(statement, Len(UseKeyword) + 1, Len(statement)))

\* C18: a file that does not parse does not fail the run, and each of its
\* lines that starts, trimmed, with an import statement whose leading path
\* segment is a declared name adds one Import site with the file and the
\* line's number, counted from 1.
C18_FallbackImports ==
    \A k \in DOMAIN walked :
        LET file == ProjectFiles[walked[k]]
        IN  (file.readable /\ ~file.parses) =>
                /\ (k = Len(walked) => pc # "failed")
                /\ \A n \in DOMAIN file.content :
                      LET statement == trim(file.content[n])
                          name == LeadingSegment(statement)
                      IN  (starts_with(statement, UseKeyword)
                             /\ name \in DepNames(dependencies)) =>
                            Cardinality({ j \in DOMAIN usage_locations[name] :
                                            /\ usage_locations[name][j].file = k
                                            /\ usage_locations[name][j].line = n
                                            /\ usage_locations[name][j].usage_type = "Import" })
                                = 1

\* C19: a second run of the scanner on the same files in the same order, with
\* the same dependency list, returns the same keys and the same sequence of
\* usage sites for every key, whatever the iteration order of its hash maps.
C19_Deterministic ==
    pc = "walk" =>
        \A orders \in [DOMAIN walked -> HashOrders] :
            LET again == RustAnalyzer_analyze(dependencies, walked, orders)
            IN  /\ again.result = "Ok"
                /\ DOMAIN again.usage_data = DOMAIN usage_locations
                /\ \A name \in DOMAIN usage_locations :
                      again.usage_data[name] = usage_locations[name]

\* a file with two imports, of two crates, and a macro has been scanned
C19_Witness ==
    /\ pc = "walk"
    /\ \E k \in DOMAIN walked : walked[k] = 4
    /\ DepNames(dependencies) = {X, Y}
    /\ \E j \in DOMAIN usage_locations[X] : usage_locations[X][j].usage_type = "Macro"
    /\ usage_locations[Y] # <<>>

\* C20: the Analysis view has one row for every declared dependency, in the
\* order of the manifest list; a row is removable exactly when its name is
\* in the removable set, its usage_count is the number of files that use the
\* dependency, and its used and unused features are disjoint and are
\* together the declared features.
C20_AnalysisView ==
    pc = "done" =>
        /\ Len(analysis) = Len(dependencies)
        /\ \A i \in DOMAIN analysis :
              LET row == analysis[i]
                  d == dependencies[i]
              IN  /\ row.name = d.name
                  /\ row.removable <=> d.name \in metrics.removable_dependencies
                  /\ row.usage_count = Cardinality(FirstSites(UsagesOf(d.name)))
                  /\ row.used_features \cap row.unused_features = {}
                  /\ row.used_features \cup row.unused_features = DeclaredFeatures(d)


\* C21: a used dependency is flagged removable below the configured
\* removal_threshold.
C21_ConfiguredThreshold ==
    pc = "score_done" =>
        \A i \in DOMAIN dependencies :
            LET name == dependencies[i].name
                score == metrics.importance_scores[name]
            IN  name \in metrics.removable_dependencies
                    <=> \/ ~metrics.is_used[name]
                        \/ score < config.analysis.removal_threshold
                        \/ metrics.is_partially_used[name] /\ 10 * score < 3 * ScoreDen

\* the files of the walk that were read and parsed, by their place in it
ParsedPlaces ==
    { k \in DOMAIN walked :
        ProjectFiles[walked[k]].readable /\ ProjectFiles[walked[k]].parses }

SyntaxOf(k) == ProjectFiles[walked[k]].syntax

\* the usage sites of a name that lie in the file at place k of the walk
SitesIn(name, k) ==
    { j \in DOMAIN UsagesOf(name) : UsagesOf(name)[j].file = k }

\* the classification of a path as it is described
ClaimedUsageType(path) ==
    LET name == path.segments[Len(path.segments)]
    IN  IF is_lowercase_first(name) /\ ~path.arguments THEN "Function"
        ELSE IF is_uppercase_first(name)
        THEN (IF Len(path.segments) = 1 THEN "Type" ELSE "Trait")
        ELSE "Other"

\* C22: a path is classified Function for a lowercase final segment without
\* arguments, Type for an uppercase final segment of a one-segment path,
\* Trait for an uppercase final segment of a longer path, Other otherwise.
C22_Classification ==
    \A k \in ParsedPlaces :
        \A n \in DOMAIN SyntaxOf(k) :
            LET node == SyntaxOf(k)[n]
            IN  (node.t = "path" /\ node.segments[1] \in DepNames(dependencies)) =>
                    \E j \in SitesIn(node.segments[1], k) :
                        LET site == usage_locations[node.segments[1]][j]
                        IN  /\ site.imported_item = path_to_string(node)
                            /\ site.usage_type = ClaimedUsageType(node)

\* C23: a file whose one import is use D::*, D declared, adds exactly one
\* Import site to D's sequence, with the symbol D::*.
C23_GlobImport ==
    \A k \in ParsedPlaces :
        LET uses == { n \in DOMAIN SyntaxOf(k) : SyntaxOf(k)[n].t = "use" }
        IN  \A n \in uses :
                LET tree == SyntaxOf(k)[n].tree
                IN  (/\ uses = {n}
                     /\ tree.k = "Path"
                     /\ tree.items[1].k = "Glob"
                     /\ tree.ident \in DepNames(dependencies)) =>
                        LET imports == { j \in SitesIn(tree.ident, k) :
                                           usage_locations[tree.ident][j].usage_type = "Import" }
                        IN  /\ Cardinality(imports) = 1
                            /\ \A j \in imports :
                                  usage_locations[tree.ident][j].imported_item
                                      = tree.ident \o ColonColon \o <<"*">>

\* C24: a macro whose leading path segment is or contains a declared name is
\* attributed, by a Macro site, to the first such dependency in declaration
\* order.
C24_MacroAttribution ==
    \A k \in ParsedPlaces :
        \A n \in DOMAIN SyntaxOf(k) :
            LET node == SyntaxOf(k)[n]
                matching == { i \in DOMAIN dependencies :
                                contains(node.segments[1], dependencies[i].name) }
            IN  (node.t = "macro" /\ matching # {}) =>
                    LET first == CHOOSE i \in matching : \A j \in matching : i <= j
                    IN  \E j \in SitesIn(dependencies[first].name, k) :
                            usage_locations[dependencies[first].name][j].usage_type = "Macro"

\* the texts of the direct usage sites of a name in a file, in the order of
\* the traversal
RECURSIVE DirectTexts(_, _, _)
DirectTexts(syntax, name, n) ==
    IF n > Len(syntax) THEN <<>>
    ELSE (IF syntax[n].t \in {"path", "macro"} /\ syntax[n].segments[1] = name
          THEN <<path_to_string(syntax[n])>> ELSE <<>>)
         \o DirectTexts(syntax, name, n + 1)

\* the sites of a sequence whose text is one of the given texts
RECURSIVE Among(_, _)
Among(sites, texts) ==
    IF sites = <<>> THEN <<>>
    ELSE (IF sites[1].imported_item \in SeqRange(texts) THEN <<sites[1].imported_item>>
          ELSE <<>>)
         \o Among(Tail(sites), texts)

\* C25: scanning a file only appends: every sequence keeps its sites as they
\* were and in their order, the new sites are of the later file and come
\* after all the sites of the files before it, and the references of one
\* file appear in traversal order.
C25_AppendOnly ==
    [][\A name \in DOMAIN usage_locations :
          /\ name \in DOMAIN usage_locations'
          /\ Len(usage_locations'[name]) >= Len(usage_locations[name])
          /\ SubSeq(usage_locations'[name], 1, Len(usage_locations[name]))
                = usage_locations[name]
          /\ \A j \in (Len(usage_locations[name]) + 1)..Len(usage_locations'[name]) :
                /\ usage_locations'[name][j].file = file_no'
                /\ \A i \in 1..Len(usage_locations[name]) :
                      usage_locations[name][i].file < usage_locations'[name][j].file
          /\ (Len(walked') > Len(walked)
                /\ ProjectFiles[walked'[file_no']].readable
                /\ ProjectFiles[walked'[file_no']].parses
                /\ Cardinality({ i \in DOMAIN dependencies : dependencies[i].name = name }) = 1) =>
                LET texts == DirectTexts(ProjectFiles[walked'[file_no']].syntax, name, 1)
                    added == SubSeq(usage_locations'[name], Len(usage_locations[name]) + 1,
                                    Len(usage_locations'[name]))
                IN  Among(added, texts) = texts
      ]_vars

\* two files have been scanned, the second with two references to y, and y's
\* sequence holds the sites of the first before those of the second
C25_Witness ==
    /\ pc = "walk"
    /\ Len(walked) = 2
    /\ walked[2] = 3
    /\ Y \in DOMAIN usage_locations
    /\ SitesIn(Y, 1) # {}
    /\ Cardinality(SitesIn(Y, 2)) > 2

\* the local names that the imports of a use tree bind
RECURSIVE TreeBinds(_)
TreeBinds(tree) ==
    CASE tree.k = "Name" -> {tree.ident}
      [] tree.k = "Rename" -> {tree.rename}
      [] tree.k = "Glob" -> {}
      [] tree.k \in {"Path", "Group"} ->
            UNION { TreeBinds(tree.items[i]) : i \in DOMAIN tree.items }

FileBinds(syntax) ==
    UNION { TreeBinds(syntax[n].tree) : n \in { m \in DOMAIN syntax : syntax[m].t = "use" } }

FromText == <<" ", "(", "f", "r", "o", "m", " ">>

\* C26: a reference to a local name that its own file does not import is not
\* attributed to a dependency through an import, whatever the files scanned
\* before have imported.
C26_ImportsScopedToFile ==
    \A k \in ParsedPlaces :
        \A n \in DOMAIN SyntaxOf(k) :
            LET node == SyntaxOf(k)[n]
            IN  (node.t \in {"path", "macro"}
                   /\ node.segments[1] \notin FileBinds(SyntaxOf(k))) =>
                    \A name \in DOMAIN usage_locations :
                        \A j \in SitesIn(name, k) :
                            LET site == usage_locations[name][j]
                            IN  /\ ~starts_with(site.imported_item,
                                                path_to_string(node) \o FromText)
                                /\ site.imported_item # node.segments[1] \o <<"!">>

\* a file that imports b from the declared x was scanned, then a file that
\* refers to b without importing it
C26_Witness ==
    /\ pc = "walk"
    /\ walked = <<2, 3>>
    /\ X \in DOMAIN usage_locations
    /\ SitesIn(X, 1) # {}

\* C27: every dependency on a directed cycle of depends-on edges, a cycle of
\* one edge from the dependency to itself included, is in a group that
\* find_circular_dependencies returns.
C27_AllCyclesFound ==
    pc = "circular" =>
        \A name \in GraphNodeNames(dependency_graph) :
            DependsOnPath(dependency_graph, name, name) =>
                name \in UNION ComponentSets(graph_query)

\* C28: add_dependency returns an error and leaves nodes and edges as they
\* are when a name is no node; else it adds one edge, from the dependent to
\* the dependency, and changes nothing else.
C28_AddDependency ==
    GraphBuilt =>
        \A dependent \in CallNames, dependency \in CallNames :
            LET call == add_dependency(dependency_graph, dependent, dependency)
                before == dependency_graph.graph
                after == call.dg.graph
            IN  IF dependent \in GraphNodeNames(dependency_graph)
                     /\ dependency \in GraphNodeNames(dependency_graph)
                THEN /\ call.result = "Ok"
                     /\ after.nodes = before.nodes
                     /\ call.dg.node_indices = dependency_graph.node_indices
                     /\ Len(after.edges) = Len(before.edges) + 1
                     /\ SubSeq(after.edges, 1, Len(before.edges)) = before.edges
                     /\ GraphNameEdges(call.dg)[Len(after.edges)] = <<dependent, dependency>>
                ELSE /\ call.result = "Err"
                     /\ after = before
                     /\ call.dg.node_indices = dependency_graph.node_indices

\* a call with the name of no node has failed on a graph that has an edge
C28_Witness ==
    /\ pc = "add_err"
    /\ dependency_graph.graph.edges # <<>>
    /\ Len(dependency_graph.graph.nodes) > 1

\* C29: with an analysis loaded, after any key events the selection index is
\* smaller than the length of the filtered list whenever that list is not
\* empty, so that actual_selected_index returns a dependency.
C29_SelectionInRange ==
    (pc = "events" /\ app.analysis.some /\ filtered_dependencies(app) # <<>>) =>
        /\ app.selected_dependency < Len(filtered_dependencies(app))
        /\ actual_selected_index(app).some

\* C30: started with a dependency filter that names a declared dependency,
\* the app has, after run_analysis, that dependency selected under the name
\* sort and the All filter.
C30_FilterSelects ==
    [][(pc = "run_analysis" /\ pc' = "events" /\ app.filter_dep.some
          /\ app.filter_dep.value \in DepNames(app'.analysis.value.dependencies)) =>
            /\ actual_selected_index(app').some
            /\ app'.analysis.value.dependencies[actual_selected_index(app').value + 1].name
                  = app.filter_dep.value
      ]_vars

====
